---- MODULE Spec2Model ----
(***************************************************************************)
(* A model of br.py: voters, electorate models, the ballot protocol with   *)
(* its per-voter memo, and the method framework (results, winner,          *)
(* multiResults, vseOn).                                                   *)
(*                                                                         *)
(* Conventions.                                                            *)
(*  - A utility, a poll score and a result are exact rationals <<n, d>>    *)
(*    with d > 0, kept in lowest terms; floating point rounding is not     *)
(*    modelled.                                                            *)
(*  - Python sequences are 0-based, TLA+ sequences 1-based: candidate c of *)
(*    the source is position c + 1 here.  CandIdx(p) gives the source's    *)
(*    index of position p.                                                 *)
(*  - heap is the store of voter objects; an electorate is a sequence of   *)
(*    references (positions of heap), so that the repeated references the  *)
(*    ReverseModel builds are the same object.                             *)
(*  - An operation that raises leaves exc # "none" in its outcome.         *)
(***************************************************************************)
EXTENDS Integers, Sequences, FiniteSets, TLC

VARIABLES
  heap,          \* Seq of voter objects [cls, utils, attrs]
  election,      \* Seq of references into heap: the Electorate (a list)
  draws,         \* number of values drawn from the random module so far
  cluster_count, \* PersonalityVoter.cluster_count
  pc,            \* position of the running operation
  cfg,           \* the arguments / configuration of the running operation
  front,         \* the closure made by stratBallotFor: [meth, fr], or NoFront
  ret,           \* the outcome of the last call: what it returned or raised
  run            \* locals of multiResults / vseOn: ballots and results so far

vars == <<heap, election, draws, cluster_count, pc, cfg, front, ret, run>>

----------------------------------------------------------------------------
(* Bounds of the model.                                                    *)

MaxCand == 3      \* candidates per voter, ballot protocol
MaxVoters == 2    \* voters per electorate, multiResults
MaxRunCand == 2   \* candidates per voter, multiResults
MaxUrn == 3       \* requested voter count, seed count: Polya urn
MaxAlpha == 1     \* wildcard weight alpha of the Polya urn
MaxLen == 3       \* length of a results vector given to winner

\* The values random.gauss may return in the model, as rationals.
GaussPair == {<<-1, 1>>, <<2, 1>>}

----------------------------------------------------------------------------
(* Exact arithmetic on rationals.                                          *)

Abs(x) == IF x < 0 THEN -x ELSE x

RECURSIVE GCD(_, _)
GCD(a, b) == IF b = 0 THEN a ELSE GCD(b, a % b)

\* n / d in lowest terms with a positive denominator (d # 0).
Rat(n, d) ==
  LET g == GCD(Abs(n), Abs(d))
      s == IF d < 0 THEN -1 ELSE 1
  IN  <<(s * n) \div g, (s * d) \div g>>

RInt(k) == <<k, 1>>
RAdd(a, b) == Rat(a[1] * b[2] + b[1] * a[2], a[2] * b[2])
RSub(a, b) == Rat(a[1] * b[2] - b[1] * a[2], a[2] * b[2])
RMul(a, b) == Rat(a[1] * b[1], a[2] * b[2])
RDiv(a, b) == Rat(a[1] * b[2], a[2] * b[1])
RNeg(a) == <<-a[1], a[2]>>
RLess(a, b) == a[1] * b[2] < b[1] * a[2]
RLeq(a, b) == a[1] * b[2] <= b[1] * a[2]
RMin(a, b) == IF RLeq(a, b) THEN a ELSE b
RMax(a, b) == IF RLeq(b, a) THEN a ELSE b
floor(a) == a[1] \div a[2]

RECURSIVE SeqMax(_)
SeqMax(s) == IF Len(s) = 1 THEN s[1] ELSE RMax(s[1], SeqMax(Tail(s)))

RECURSIVE SeqMin(_)
SeqMin(s) == IF Len(s) = 1 THEN s[1] ELSE RMin(s[1], SeqMin(Tail(s)))

RECURSIVE SeqSum(_)
SeqSum(s) == IF s = <<>> THEN RInt(0) ELSE RAdd(s[1], SeqSum(Tail(s)))

mean(s) == RDiv(SeqSum(s), RInt(Len(s)))

\* The source's 0-based index of position p.
CandIdx(p) == p - 1

\* All sequences of length n over S.
Tuples(S, n) == [1..n -> S]

----------------------------------------------------------------------------
(* Attributes set on a voter object: setattr / getattr.                    *)

NoAttrs == <<>>

setattr(attrs, name, val) ==
  [k \in DOMAIN attrs \cup {name} |-> IF k = name THEN val ELSE attrs[k]]

hasattr(attrs, name) == name \in DOMAIN attrs

Ok(v) == [exc |-> "none", val |-> v]
Raise(e) == [exc |-> e, val |-> <<>>]

----------------------------------------------------------------------------
(* Voter and PersonalityVoter.                                             *)

VoterObj(cls, utils, attrs) == [cls |-> cls, utils |-> utils, attrs |-> attrs]

\* How many values one rand call draws: one gauss per candidate, and one
\* more for the personality of a PersonalityVoter.
randDraws(cls, ncand) == IF cls = "PersonalityVoter" THEN ncand + 1 ELSE ncand

\* rand(cls, ncand), drawing the values of tape in order; cc is the value of
\* cluster_count at the call.
rand(cls, ncand, tape, cc) ==
  IF cls = "PersonalityVoter"
  THEN VoterObj(cls, SubSeq(tape, 1, ncand),
                setattr(setattr(NoAttrs, "cluster", cc),
                        "personality", tape[ncand + 1]))
  ELSE VoterObj(cls, SubSeq(tape, 1, ncand), NoAttrs)

\* cluster_count after one rand call.
randCount(cls, cc) == IF cls = "PersonalityVoter" THEN cc + 1 ELSE cc

\* copyWithUtils: Voter builds self.__class__(utils); PersonalityVoter hands
\* self to super().copyWithUtils a second time, which takes one argument.
copyWithUtils(self, utils) ==
  IF self.cls = "PersonalityVoter"
  THEN Raise("TypeError")
  ELSE Ok(VoterObj(self.cls, utils, NoAttrs))

\* numpy's sqrt, on the values whose root is rational.
sqrt(x) ==
  CHOOSE r \in {Rat(n, d) : n \in 0..6, d \in 1..6} : RMul(r, r) = x

\* The weights of the model: 0 and the 0.75 of the doctest.
WeightSet == {<<0, 1>>, <<3, 4>>}

\* hybridWith without its assert: the generator then reads v2[i] for every
\* i of self, which raises IndexError when v2 is the shorter one.
hybridWithUnchecked(self, v2, w2) ==
  IF Len(self.utils) > Len(v2.utils)
  THEN Raise("IndexError")
  ELSE LET root == sqrt(RAdd(RInt(1), RMul(w2, w2)))
       IN  copyWithUtils(self,
             [i \in 1..Len(self.utils) |->
                RAdd(RDiv(self.utils[i], root),
                     RDiv(RMul(w2, v2.utils[i]), root))])

hybridWith(self, v2, w2) ==
  IF Len(self.utils) # Len(v2.utils)
  THEN Raise("AssertionError")
  ELSE LET root == sqrt(RAdd(RInt(1), RMul(w2, w2)))
       IN  copyWithUtils(self,
             [i \in 1..Len(self.utils) |->
                RAdd(RDiv(self.utils[i], root),
                     RDiv(RMul(w2, v2.utils[i]), root))])

\* mutantChild draws the random voter first, then blends.
mutantChild(self, muteWeight, tape, cc) ==
  hybridWith(self, rand(self.cls, Len(self.utils), tape, cc), muteWeight)

----------------------------------------------------------------------------
(* The ballot protocol.                                                    *)

Methods == {"Score", "Mav"}

\* The attribute rememberBallot writes: <methName>_<kind>.
MemoKey(cname, kind) == cname \o "_" \o kind

baseCuts == <<<<-4, 5>>, <<0, 1>>, <<4, 5>>, <<8, 5>>>>

\* floor(10.99 * (util - lo) / (hi - lo))
scoreOf(util, lo, hi) ==
  floor(RMul(<<1099, 100>>, RDiv(RSub(util, lo), RSub(hi, lo))))

ScoreHonBallot(utils) ==
  IF utils = <<>> THEN Raise("ValueError")
  ELSE LET bot == SeqMin(utils)
           top == SeqMax(utils)
       IN  IF top = bot THEN Raise("ZeroDivisionError")
           ELSE Ok([i \in 1..Len(utils) |-> scoreOf(utils[i], bot, top)])

RECURSIVE toVoteFrom(_, _, _)
toVoteFrom(cutoffs, util, vote) ==
  IF vote > Len(cutoffs) THEN CandIdx(vote)
  ELSE IF RLeq(util, cutoffs[vote]) THEN CandIdx(vote)
  ELSE toVoteFrom(cutoffs, util, vote + 1)

\* toVote: the first grade whose cutoff is at least util, else len(cutoffs).
toVote(cutoffs, util) == toVoteFrom(cutoffs, util, 1)

\* Mav.honBallot with all four base cutoffs in place of the voter's own
\* maximum as the last cutoff.
MavHonBallotBaseCuts(utils) ==
  IF utils = <<>> THEN Raise("ValueError")
  ELSE Ok([i \in 1..Len(utils) |-> toVote(baseCuts, utils[i])])

\* Mav.honBallot: max() of an empty voter raises ValueError.
MavHonBallot(utils) ==
  IF utils = <<>> THEN Raise("ValueError")
  ELSE LET cutoffs == SubSeq(baseCuts, 1, 3) \o <<SeqMax(utils)>>
       IN  Ok([i \in 1..Len(utils) |-> toVote(cutoffs, utils[i])])

honBallotOf(cname, utils) ==
  IF cname = "Score" THEN ScoreHonBallot(utils) ELSE MavHonBallot(utils)

\* enumerate(info): the pairs (position, score).
enumerate(info) == [i \in 1..Len(info) |-> <<i, info[i]>>]

\* The key of the sort in stratBallotFor: lambda x: x[0], the index.
placesKey(x) == x[1]

\* sorted(seq, key=placesKey): a stable sort, ascending in the key.
RECURSIVE InsertByKey(_, _)
InsertByKey(x, s) ==
  IF s = <<>> THEN <<x>>
  ELSE IF placesKey(x) < placesKey(s[1]) THEN <<x>> \o s
  ELSE <<s[1]>> \o InsertByKey(x, Tail(s))

RECURSIVE sorted(_)
sorted(s) ==
  IF s = <<>> THEN <<>>
  ELSE InsertByKey(s[Len(s)], sorted(SubSeq(s, 1, Len(s) - 1)))

places(info) == sorted(enumerate(info))

\* stratBallotFor up to the closure: the frontrunners it captures, as
\* (candidate, candidate, score, score).  Score keeps the first two only.
frontrunners(info) ==
  IF Len(info) < 2 THEN Raise("IndexError")
  ELSE LET pl == places(info)
       IN  Ok(<<pl[1][1], pl[2][1], pl[1][2], pl[2][2]>>)

Clamp(lo, hi, x) == IF x < lo THEN lo ELSE IF x > hi THEN hi ELSE x

\* The closure stratBallot of Score: [exc, val, sets, flag]; when sets, it
\* sets <cname>_isStrat to flag before it returns.
ScoreStratBallot(utils, fr) ==
  IF Len(utils) < fr[1] \/ Len(utils) < fr[2]
  THEN [exc |-> "IndexError", val |-> <<>>, sets |-> FALSE, flag |-> FALSE]
  ELSE LET c0 == utils[fr[1]]
           c1 == utils[fr[2]]
       IN  IF c0 = c1
           THEN [exc |-> "none", sets |-> FALSE, flag |-> FALSE,
                 val |-> [i \in 1..Len(utils) |->
                            IF RLeq(c0, utils[i]) THEN 10 ELSE 0]]
           ELSE LET strat == ~RLess(c1, c0)
                    hi == IF strat THEN c1 ELSE c0
                    lo == IF strat THEN c0 ELSE c1
                IN  [exc |-> "none", sets |-> TRUE, flag |-> strat,
                     val |-> [i \in 1..Len(utils) |->
                                Clamp(0, 10, scoreOf(utils[i], lo, hi))]]

\* The closure stratBallot of Mav.
MavStratBallot(utils, fr) ==
  IF Len(utils) < fr[1] \/ Len(utils) < fr[2]
  THEN [exc |-> "IndexError", val |-> <<>>, sets |-> FALSE, flag |-> FALSE]
  ELSE LET f0 == utils[fr[1]]
           f1 == utils[fr[2]]
       IN  IF f0 = f1
           THEN [exc |-> "none", sets |-> FALSE, flag |-> FALSE,
                 val |-> [i \in 1..Len(utils) |->
                            IF RLeq(f0, utils[i]) THEN 4 ELSE 0]]
           ELSE LET strat == ~RLess(f1, f0)
                    hi == IF strat THEN f1 ELSE f0
                    lo == IF strat THEN f0 ELSE f1
                    top == SeqMax(utils)
                    cutoffs ==
                      [p \in 1..4 |->
                         IF CandIdx(p) < floor(fr[4]) - 1
                         THEN RMin(hi, baseCuts[p])
                         ELSE IF CandIdx(p) < floor(fr[3]) + 1
                         THEN lo
                         ELSE RMin(top, baseCuts[p])]
                IN  [exc |-> "none", sets |-> TRUE, flag |-> strat,
                     val |-> [i \in 1..Len(utils) |->
                                toVote(cutoffs, utils[i])]]

stratBallotOf(cname, utils, fr) ==
  IF cname = "Score" THEN ScoreStratBallot(utils, fr)
  ELSE MavStratBallot(utils, fr)

\* rememberBallot's getAndRemember: the ballot is set on the voter when fun
\* returned one; fun's own setattr of _isStrat comes before it.
rememberBallot(attrs, cname, kind, out) ==
  IF out.exc # "none" THEN attrs
  ELSE setattr(attrs, MemoKey(cname, kind), out.val)

withFlag(attrs, cname, out) ==
  IF out.exc = "none" /\ out.sets
  THEN setattr(attrs, MemoKey(cname, "isStrat"), out.flag)
  ELSE attrs

\* ossBallot: getattr(voter, cname_isStrat, False) picks the attribute read.
ossBallot(attrs, cname) ==
  LET isStrat == IF hasattr(attrs, MemoKey(cname, "isStrat"))
                 THEN attrs[MemoKey(cname, "isStrat")] ELSE FALSE
      name == IF isStrat THEN MemoKey(cname, "strat") ELSE MemoKey(cname, "hon")
  IN  IF hasattr(attrs, name) THEN Ok(attrs[name]) ELSE Raise("AttributeError")

----------------------------------------------------------------------------
(* The ballot functions called one at a time on a voter, in any order.     *)

NoFront == [meth |-> "none", fr |-> <<>>]

NoRet == [op |-> "none", cname |-> "none", voter |-> 0, exc |-> "none",
          val |-> <<>>, info |-> <<>>]

Returned(op, cname, v, out, info) ==
  [op |-> op, cname |-> cname, voter |-> v, exc |-> out.exc,
   val |-> out.val, info |-> info]

\* The poll scores of the model: 1/2 and 7/2.
PollSet == {<<1, 2>>, <<7, 2>>}

withAttrs(h, v, attrs) == [h EXCEPT ![v].attrs = attrs]

BallotInit ==
  /\ \E n \in 1..MaxCand : \E tape \in Tuples(GaussPair, n) :
       /\ heap = <<rand("Voter", n, tape, 0)>>
       /\ draws = n
  /\ election = <<>>
  /\ cluster_count = 0
  /\ pc = "ballot"
  /\ cfg = <<>>
  /\ front = NoFront
  /\ ret = NoRet
  /\ run = <<>>

\* cls.honBallot(cls, voter), under rememberBallot.
CallHonBallot(cname, v) ==
  LET out == honBallotOf(cname, heap[v].utils)
  IN  /\ pc = "ballot"
      /\ heap' = withAttrs(heap, v,
                   rememberBallot(heap[v].attrs, cname, "hon", out))
      /\ ret' = Returned("honBallot", cname, v, out, <<>>)
      /\ UNCHANGED <<election, draws, cluster_count, pc, cfg, front, run>>

\* method.stratBallotFor(info): makes the closure.  The poll has one score
\* for each candidate of the voter.
CallStratBallotFor(cname, info) ==
  LET out == frontrunners(info)
  IN  /\ pc = "ballot"
      /\ front' = IF out.exc = "none"
                  THEN [meth |-> cname, fr |-> out.val] ELSE front
      /\ ret' = Returned("stratBallotFor", cname, 0, out, info)
      /\ UNCHANGED <<heap, election, draws, cluster_count, pc, cfg, run>>

\* The closure, called as makeBallot(cls, voter), under rememberBallot.
CallStratBallot(v) ==
  LET cname == front.meth
      out == stratBallotOf(cname, heap[v].utils, front.fr)
  IN  /\ pc = "ballot"
      /\ front # NoFront
      /\ heap' = withAttrs(heap, v,
                   rememberBallot(withFlag(heap[v].attrs, cname, out),
                                  cname, "strat", out))
      /\ ret' = Returned("stratBallot", cname, v, out, <<>>)
      /\ UNCHANGED <<election, draws, cluster_count, pc, cfg, front, run>>

\* Method.ossBallot(cls, voter): not under rememberBallot.
CallOssBallot(cname, v) ==
  LET out == ossBallot(heap[v].attrs, cname)
  IN  /\ pc = "ballot"
      /\ ret' = Returned("ossBallot", cname, v, out, <<>>)
      /\ UNCHANGED <<heap, election, draws, cluster_count, pc, cfg, front, run>>

BallotNext ==
  \/ \E cname \in Methods, v \in 1..Len(heap) : CallHonBallot(cname, v)
  \/ \E cname \in Methods :
       \E info \in Tuples(PollSet, Len(heap[1].utils)) :
         CallStratBallotFor(cname, info)
  \/ \E v \in 1..Len(heap) : CallStratBallot(v)
  \/ \E cname \in Methods, v \in 1..Len(heap) : CallOssBallot(cname, v)

SpecBallot == BallotInit /\ [][BallotNext]_vars

----------------------------------------------------------------------------
(* Electorate models.  Each takes the heap and the values it will draw and *)
(* gives [exc, heap, election, used, cc]: the heap with the new voters,    *)
(* the electorate as references, the number of values drawn and the new    *)
(* cluster_count.                                                          *)

ModelOut(exc, h, e, used, cc) ==
  [exc |-> exc, heap |-> h, election |-> e, used |-> used, cc |-> cc]

\* RandomModel.__call__: nvot independent vType.rand(ncand).
RandomModel(h, nvot, ncand, vType, tape, cc) ==
  LET d == randDraws(vType, ncand)
      objs == [i \in 1..nvot |->
                 rand(vType, ncand, SubSeq(tape, (i - 1) * d + 1, i * d),
                      cc + (IF vType = "PersonalityVoter" THEN i - 1 ELSE 0))]
  IN  ModelOut("none", h \o objs, [i \in 1..nvot |-> Len(h) + i], nvot * d,
               IF vType = "PersonalityVoter" THEN cc + nvot ELSE cc)

\* ReverseModel.__call__: one base voter and its negation, each repeated
\* nvot // 2 times by reference.
ReverseModel(h, nvot, ncand, vType, tape, cc) ==
  IF nvot % 2 # 0
  THEN ModelOut("ValueError", h, <<>>, 0, cc)
  ELSE LET d == randDraws(vType, ncand)
           basevoter == rand(vType, ncand, SubSeq(tape, 1, d), cc)
           mirror == VoterObj(vType,
                       [i \in 1..ncand |-> RNeg(basevoter.utils[i])], NoAttrs)
           half == nvot \div 2
       IN  ModelOut("none", h \o <<basevoter, mirror>>,
                    [i \in 1..nvot |->
                       IF i <= half THEN Len(h) + 1 ELSE Len(h) + 2],
                    d, randCount(vType, cc))

Models == {"RandomModel", "ReverseModel"}

callModel(model, h, nvot, ncand, vType, tape, cc) ==
  IF model = "RandomModel"
  THEN RandomModel(h, nvot, ncand, vType, tape, cc)
  ELSE ReverseModel(h, nvot, ncand, vType, tape, cc)

\* The number of values the model draws when called with these arguments.
modelDraws(model, nvot, ncand, vType) ==
  IF model = "RandomModel" THEN nvot * randDraws(vType, ncand)
  ELSE IF nvot % 2 # 0 THEN 0 ELSE randDraws(vType, ncand)

----------------------------------------------------------------------------
(* Method: results, winner, multiResults, vseOn.                           *)

RECURSIVE InsertInt(_, _)
InsertInt(x, s) ==
  IF s = <<>> THEN <<x>>
  ELSE IF x < s[1] THEN <<x>> \o s
  ELSE <<s[1]>> \o InsertInt(x, Tail(s))

RECURSIVE sortedInts(_)
sortedInts(s) ==
  IF s = <<>> THEN <<>> ELSE InsertInt(s[1], sortedInts(Tail(s)))

\* The first position at or after p whose score differs from base, or
\* Len(scores) + 1: the while loop of Mav.candScore.
RECURSIVE pastBase(_, _, _)
pastBase(scores, base, p) ==
  IF p <= Len(scores) /\ scores[p] = base
  THEN pastBase(scores, base, p + 1) ELSE p

\* Mav.candScore, with i and mid the source's 0-based values.
MavCandScore(votes) ==
  LET scores == sortedInts(votes)
      nvot == Len(scores)
      mid == nvot \div 2
      base == scores[mid + 1]
      i == CandIdx(pastBase(scores, base, mid + 1))
      mod == Rat(mid * (2 * base + 1), 2 * i - 1)
  IN  IF RLess(RInt(base), mod) THEN mod
      ELSE RSub(RInt(base),
                RDiv(RSub(RInt(base), mod), Rat(2 * base + 1, 2)))

\* Score.candScore = mean.
ScoreCandScore(votes) == mean([i \in 1..Len(votes) |-> RInt(votes[i])])

candScore(cname, votes) ==
  IF cname = "Score" THEN ScoreCandScore(votes) ELSE MavCandScore(votes)

\* Method.results: candScore over the columns of zip(*ballots).
results(cname, ballots) ==
  LET ncols == IF ballots = <<>> THEN 0 ELSE Len(ballots[1])
  IN  [c \in 1..ncols |->
         candScore(cname, [b \in 1..Len(ballots) |-> ballots[b][c]])]

winnersFirstOnly(res) ==
  {c \in 1..Len(res) :
     res[c] = SeqMax(res) /\ \A d \in 1..(c - 1) : res[d] # res[c]}

\* Method.winner: the candidates random.choice picks among.
winners(res) == {c \in 1..Len(res) : res[c] = SeqMax(res)}

\* Electorate.socUtils: the mean of each column of zip(*self).
socUtils(h, e) ==
  LET ncols == IF e = <<>> THEN 0 ELSE Len(h[e[1]].utils)
  IN  [c \in 1..ncols |-> mean([v \in 1..Len(e) |-> h[e[v]].utils[c]])]

----------------------------------------------------------------------------
(* One multiResults run of a method on an electorate a model generated,    *)
(* alone or as the first statement of vseOn.                               *)

\* at is the statement of multiResults reached last: it stays when the
\* statement raises.
NoRun == [meth |-> "none", at |-> "hon", ballots |-> <<>>, hon |-> <<>>,
          info |-> <<>>, strat |-> <<>>, oss |-> <<>>]

\* media: the identity, the default of multiResults.
media(res) == res

PhaseAfterOssFirst(phase) ==
  CASE phase = "hon" -> "poll"
    [] phase = "poll" -> "oss"
    [] phase = "oss" -> "strat"
    [] phase = "strat" -> "returned"

\* The statements of multiResults in order: hon, info and the closure,
\* strat, oss, return.
PhaseAfter(phase) ==
  CASE phase = "hon" -> "poll"
    [] phase = "poll" -> "strat"
    [] phase = "strat" -> "oss"
    [] phase = "oss" -> "returned"

MultiInit ==
  /\ \E model \in Models, nvot \in 0..MaxVoters, ncand \in 1..MaxRunCand :
       \E tape \in Tuples(GaussPair, modelDraws(model, nvot, ncand, "Voter")) :
         LET out == callModel(model, <<>>, nvot, ncand, "Voter", tape, 0)
         IN  /\ out.exc = "none"
             /\ heap = out.heap
             /\ election = out.election
             /\ draws = out.used
             /\ cluster_count = out.cc
  /\ \E cname \in Methods :
       /\ cfg = [meth |-> cname]
       /\ run = [NoRun EXCEPT !.meth = cname]
  /\ pc = "hon"
  /\ front = NoFront
  /\ ret = NoRet

\* The ballot maker of a pass applied to one voter: [exc, val, attrs].
makeBallot(phase, cname, voter, fr) ==
  CASE phase = "hon" ->
         LET out == honBallotOf(cname, voter.utils)
         IN  [exc |-> out.exc, val |-> out.val,
              attrs |-> rememberBallot(voter.attrs, cname, "hon", out)]
    [] phase = "strat" ->
         LET out == stratBallotOf(cname, voter.utils, fr)
         IN  [exc |-> out.exc, val |-> out.val,
              attrs |-> rememberBallot(withFlag(voter.attrs, cname, out),
                                       cname, "strat", out)]
    [] phase = "oss" ->
         LET out == ossBallot(voter.attrs, cname)
         IN  [exc |-> out.exc, val |-> out.val, attrs |-> voter.attrs]

\* resultsFor, one voter of the generator at a time: results() takes every
\* ballot of the pass into a list before it scores any.
NextBallot(phase) ==
  /\ pc = phase
  /\ Len(run.ballots) < Len(election)
  /\ LET v == election[Len(run.ballots) + 1]
         out == makeBallot(phase, run.meth, heap[v], front.fr)
     IN  /\ heap' = withAttrs(heap, v, out.attrs)
         /\ ret' = Returned(phase \o "Ballot", run.meth, v, out, <<>>)
         /\ IF out.exc = "none"
            THEN /\ run' = [run EXCEPT !.ballots = Append(@, out.val)]
                 /\ pc' = pc
            ELSE /\ run' = run
                 /\ pc' = "raised"
  /\ UNCHANGED <<election, draws, cluster_count, cfg, front>>

\* resultsFor, the end of the pass: results(ballots) is assigned.
PassResults(phase) ==
  /\ pc = phase
  /\ Len(run.ballots) = Len(election)
  /\ LET res == results(run.meth, run.ballots)
     IN  /\ run' = [run EXCEPT ![phase] = res, !.ballots = <<>>,
                                !.at = PhaseAfter(phase)]
         /\ ret' = Returned("resultsFor", run.meth, 0, Ok(res), <<>>)
  /\ pc' = PhaseAfter(phase)
  /\ UNCHANGED <<heap, election, draws, cluster_count, cfg, front>>

\* info = media(hon) and self.stratBallotFor(info).
Poll ==
  /\ pc = "poll"
  /\ LET info == media(run.hon)
         out == frontrunners(info)
     IN  /\ run' = [run EXCEPT !.info = info,
                                !.at = IF out.exc = "none"
                                       THEN PhaseAfter("poll") ELSE @]
         /\ ret' = Returned("stratBallotFor", run.meth, 0, out, info)
         /\ IF out.exc = "none"
            THEN /\ front' = [meth |-> run.meth, fr |-> out.val]
                 /\ pc' = PhaseAfter("poll")
            ELSE /\ front' = front
                 /\ pc' = "raised"
  /\ UNCHANGED <<heap, election, draws, cluster_count, cfg>>

\* vseOn after its multiResults call returned: utils, best and rand are
\* computed, then the generator expression reads the name results, which
\* is neither a local nor a global.
VseOnRest ==
  /\ pc = "returned"
  /\ LET utils == socUtils(heap, election)
     IN  ret' = Returned("vseOn", run.meth, 0,
                         IF utils = <<>> THEN Raise("ValueError")
                         ELSE Raise("NameError"), <<>>)
  /\ pc' = "raised"
  /\ UNCHANGED <<heap, election, draws, cluster_count, cfg, front, run>>

MultiNext ==
  \/ \E phase \in {"hon", "strat", "oss"} : NextBallot(phase)
  \/ \E phase \in {"hon", "strat", "oss"} : PassResults(phase)
  \/ Poll
  \/ VseOnRest

SpecMulti == MultiInit /\ [][MultiNext]_vars

----------------------------------------------------------------------------
(* Claims about one multiResults run (SpecMulti).                          *)

ElectionVoters == {election[j] : j \in 1..Len(election)}

HasMemo(v, kind) == hasattr(heap[v].attrs, MemoKey(run.meth, kind))

\* How many voters the one-sided pass has asked a ballot for.
OssCount ==
  IF run.at = "oss" THEN Len(run.ballots)
  ELSE IF run.at = "returned" THEN Len(election) ELSE 0

OssRequested(v) == \E j \in 1..OssCount : election[j] = v

\* The poll has been derived: stratBallotFor was called or a later
\* statement reached.
PollDerived ==
  \/ ret.op = "stratBallotFor"
  \/ run.at \in {"strat", "oss", "returned"}

\* 0 NoBallot, 1 Honest, 2 Strategic, 3 OneSided.
Stage(v) ==
  IF OssRequested(v) THEN 3
  ELSE IF HasMemo(v, "strat") THEN 2
  ELSE IF HasMemo(v, "hon") THEN 1 ELSE 0

PhasesInOrder ==
  /\ (PollDerived \/ \E v \in ElectionVoters : HasMemo(v, "strat"))
       => \A v \in ElectionVoters : HasMemo(v, "hon")
  /\ (\E v \in ElectionVoters : OssRequested(v))
       => \A v \in ElectionVoters : HasMemo(v, "strat")
  /\ \A v \in ElectionVoters : HasMemo(v, "strat") => HasMemo(v, "hon")

StageMovesOneStep ==
  \A v \in ElectionVoters : Stage(v)' \in {Stage(v), Stage(v) + 1}

\* C2: within one multiResults run every voter's honest ballot is memoized
\* before the poll is derived and before any strategic ballot is computed,
\* every voter's strategic ballot is memoized before any one-sided ballot
\* is requested, and a voter's memo state moves NoBallot -> Honest ->
\* Strategic -> OneSided one step at a time, never back.
C2_PhasesSequential == [](PhasesInOrder) /\ [][StageMovesOneStep]_vars

\* A run that returned on an electorate of two distinct voters, each of
\* them having gone through all the stages.
C2_Witness ==
  /\ pc = "returned"
  /\ Cardinality(ElectionVoters) >= 2
  /\ \A v \in ElectionVoters : Stage(v) = 3

\* The pairs (winner, runner-up) of a poll: a candidate of maximum score
\* and another candidate no third one beats.
TopTwo(info) ==
  {p \in (1..Len(info)) \X (1..Len(info)) :
     /\ p[1] # p[2]
     /\ info[p[1]] = SeqMax(info)
     /\ \A c \in 1..Len(info) : c # p[1] => RLeq(info[c], info[p[2]])}

\* C3: the one-sided ballot of a voter is its memoized strategic ballot if
\* the voter strictly prefers the polled runner-up to the polled winner,
\* and its memoized honest ballot otherwise (winner preferred, or tied).
C3_OssFollowsPollPreference ==
  run.at = "oss" =>
    \A j \in 1..Len(run.ballots) :
      LET v == heap[election[j]]
      IN  \E p \in TopTwo(run.info) :
            run.ballots[j] =
              IF RLess(v.utils[p[1]], v.utils[p[2]])
              THEN v.attrs[MemoKey(run.meth, "strat")]
              ELSE v.attrs[MemoKey(run.meth, "hon")]

\* (utility[winner] - meanUtility) / (bestUtility - meanUtility)
vseOf(utils, w) ==
  RDiv(RSub(utils[w], mean(utils)), RSub(SeqMax(utils), mean(utils)))

\* C6: vseOn returns, for each of the three result sets of multiResults,
\* the normalised utility of a winner of that set, followed by the name of
\* the method.
C6_VseOnReturnsScores ==
  ret.op = "vseOn" =>
    /\ ret.exc = "none"
    /\ Len(ret.val) = 4
    /\ ret.val[4] = run.meth
    /\ LET utils == socUtils(heap, election)
           sets == <<run.hon, run.strat, run.oss>>
       IN  \A k \in 1..3 :
             /\ \E w \in winners(sets[k]) : ret.val[k] = vseOf(utils, w)
             /\ RLeq(ret.val[k], RInt(1))

----------------------------------------------------------------------------
(* Claims about the ballot functions called one at a time (SpecBallot).    *)

\* info without its position p.
Without(info, p) ==
  [i \in 1..(Len(info) - 1) |-> IF i < p THEN info[i] ELSE info[i + 1]]

\* C1: for a poll of at least two candidates stratBallotFor picks as
\* frontrunner 0 a candidate of maximum poll score and as frontrunner 1 a
\* candidate of second-highest poll score, wherever they stand in the poll.
C1_FrontrunnersAreTopTwo ==
  (ret.op = "stratBallotFor" /\ Len(ret.info) >= 2) =>
    /\ ret.exc = "none"
    /\ LET f0 == ret.val[1]
           f1 == ret.val[2]
       IN  /\ f0 # f1
           /\ ret.info[f0] = SeqMax(ret.info)
           /\ ret.info[f1] = SeqMax(Without(ret.info, f0))

\* C4: ossBallot raises whenever the honest and the strategic ballot of the
\* voter and method are not both memoized: neither, only the honest one,
\* only the strategic one.
C4_OssNeedsBothMemos ==
  (/\ ret.op = "ossBallot"
   /\ ~(/\ hasattr(heap[ret.voter].attrs, MemoKey(ret.cname, "hon"))
        /\ hasattr(heap[ret.voter].attrs, MemoKey(ret.cname, "strat"))))
    => ret.exc # "none"

BallotKinds == {"hon", "strat", "oss"}

\* C9: a ballot function that returns ballot b for method M and voter v
\* leaves b in v's memo entry for (M, its kind) and leaves v's entries for
\* the other methods and the other ballot kinds as they were.
C9_EveryBallotIsRecorded ==
  [][(ret'.op \in {"honBallot", "stratBallot", "ossBallot"}
        /\ ret'.exc = "none")
       => LET v == ret'.voter
              kind == CHOOSE k \in BallotKinds : ret'.op = k \o "Ballot"
              key == MemoKey(ret'.cname, kind)
              others == {MemoKey(m, k) : m \in Methods, k \in BallotKinds}
                          \ {key}
          IN  /\ hasattr(heap'[v].attrs, key)
              /\ heap'[v].attrs[key] = ret'.val
              /\ \A o \in others :
                   /\ hasattr(heap'[v].attrs, o) <=> hasattr(heap[v].attrs, o)
                   /\ hasattr(heap[v].attrs, o)
                        => heap'[v].attrs[o] = heap[v].attrs[o]]_vars

----------------------------------------------------------------------------
(* Mav.honBallot called on one voter (SpecGrade).                          *)

\* The utilities of the voter: values below, on and above each fixed cutoff.
UtilSet == {<<-1, 1>>, <<-4, 5>>, <<0, 1>>, <<1, 2>>, <<4, 5>>, <<2, 1>>}

\* One voter made by Voter.rand, of any length up to MaxCand.
GradeInit ==
  /\ \E n \in 0..MaxCand : \E tape \in Tuples(UtilSet, n) :
       /\ heap = <<rand("Voter", n, tape, 0)>>
       /\ draws = n
  /\ election = <<>>
  /\ cluster_count = 0
  /\ pc = "ballot"
  /\ cfg = <<>>
  /\ front = NoFront
  /\ ret = NoRet
  /\ run = <<>>

GradeNext == CallHonBallot("Mav", 1)

SpecGrade == GradeInit /\ [][GradeNext]_vars

----------------------------------------------------------------------------
(* Method.winner called on a results vector (SpecWinner).                  *)

ScoreSet == {RInt(-100), RInt(1), RInt(2), RInt(3)}

\* The vectors of the two doctests of winner.
DocUnique == <<RInt(1), RInt(2), RInt(3), RInt(2), RInt(-100)>>
DocTied == <<RInt(1), RInt(2), RInt(1), RInt(3), RInt(3), RInt(3), RInt(2),
             RInt(1), RInt(2)>>

WinnerInit ==
  /\ \E res \in UNION {Tuples(ScoreSet, n) : n \in 0..MaxLen}
                  \cup {DocUnique, DocTied} :
       cfg = [op |-> "winner", results |-> res]
  /\ heap = <<>>
  /\ election = <<>>
  /\ draws = 0
  /\ cluster_count = 0
  /\ pc = "call"
  /\ front = NoFront
  /\ ret = NoRet
  /\ run = NoRun

\* winner(results): max() of an empty vector raises; random.choice takes
\* one value from the random module and may return any of the winners.
CallWinner ==
  /\ pc = "call"
  /\ IF cfg.results = <<>>
     THEN /\ ret' = Returned("winner", "Method", 0, Raise("ValueError"), <<>>)
          /\ pc' = "raised"
          /\ draws' = draws
     ELSE /\ \E w \in winners(cfg.results) :
               ret' = Returned("winner", "Method", 0, Ok(w), <<>>)
          /\ pc' = "returned"
          /\ draws' = draws + 1
  /\ UNCHANGED <<heap, election, cluster_count, cfg, front, run>>

WinnerNext == CallWinner

SpecWinner == WinnerInit /\ [][WinnerNext]_vars

\* The call of winner that returns position c.
WinnerReturns(c) == CallWinner /\ ret'.exc = "none" /\ ret'.val = c

\* The positions no other position beats.
TopPositions(res) ==
  {c \in 1..Len(res) : \A d \in 1..Len(res) : RLeq(res[d], res[c])}

\* C5: on a non-empty vector winner returns an index of maximum score, and
\* every index of maximum score is a possible return value; the first
\* doctest vector always gives 2 and the second each of 3, 4 and 5 only.
C5_WinnerIsAnyMaximum ==
  cfg.results # <<>> =>
    /\ ret.op = "winner" =>
         /\ ret.exc = "none"
         /\ ret.val \in TopPositions(cfg.results)
    /\ pc = "call" =>
         \A c \in TopPositions(cfg.results) : ENABLED WinnerReturns(c)
    /\ (cfg.results = DocUnique /\ ret.op = "winner") => CandIdx(ret.val) = 2
    /\ cfg.results = DocTied =>
         /\ ret.op = "winner" => CandIdx(ret.val) \in {3, 4, 5}
         /\ pc = "call" => \A c \in {3, 4, 5} : ENABLED WinnerReturns(c + 1)

\* winner returned the last of the three tied maxima of the second doctest.
C5_Witness ==
  /\ cfg.results = DocTied
  /\ ret.op = "winner"
  /\ CandIdx(ret.val) = 5

----------------------------------------------------------------------------
(* One call of a voter operation or of the mirrored model on two voters    *)
(* (SpecVoter).  cfg holds the arguments of the call.                      *)

VoterTypes == {"Voter", "PersonalityVoter"}

\* Two voters made by rand, of either class and of any length up to
\* MaxRunCand; one call is then made on them.
VoterInit ==
  /\ \E ta \in VoterTypes, tb \in VoterTypes :
       \E na \in 0..MaxRunCand, nb \in 0..MaxRunCand :
         \E tapeA \in Tuples(GaussPair, randDraws(ta, na)) :
           \E tapeB \in Tuples(GaussPair, randDraws(tb, nb)) :
             /\ heap = <<rand(ta, na, tapeA, 0),
                         rand(tb, nb, tapeB, randCount(ta, 0))>>
             /\ draws = randDraws(ta, na) + randDraws(tb, nb)
             /\ cluster_count = randCount(tb, randCount(ta, 0))
  /\ election = <<>>
  /\ pc = "api"
  /\ cfg = [op |-> "none"]
  /\ front = NoFront
  /\ ret = NoRet
  /\ run = NoRun

\* vType.rand(ncand)
CallRand(vType, ncand) ==
  /\ pc = "api"
  /\ \E tape \in Tuples(GaussPair, randDraws(vType, ncand)) :
       LET voter == rand(vType, ncand, tape, cluster_count)
       IN  /\ heap' = Append(heap, voter)
           /\ ret' = Returned("rand", vType, Len(heap) + 1, Ok(voter), <<>>)
  /\ draws' = draws + randDraws(vType, ncand)
  /\ cluster_count' = randCount(vType, cluster_count)
  /\ cfg' = [op |-> "rand", vType |-> vType, ncand |-> ncand]
  /\ pc' = "called"
  /\ UNCHANGED <<election, front, run>>

\* heap[a].hybridWith(heap[b], w2)
CallHybridWith(a, b, w2) ==
  /\ pc = "api"
  /\ LET out == hybridWith(heap[a], heap[b], w2)
     IN  /\ heap' = IF out.exc = "none" THEN Append(heap, out.val) ELSE heap
         /\ ret' = Returned("hybridWith", heap[a].cls,
                            IF out.exc = "none" THEN Len(heap) + 1 ELSE 0,
                            out, <<>>)
  /\ cfg' = [op |-> "hybridWith", a |-> a, b |-> b, w2 |-> w2]
  /\ pc' = "called"
  /\ UNCHANGED <<election, draws, cluster_count, front, run>>

\* heap[a].mutantChild(muteWeight)
CallMutantChild(a, muteWeight) ==
  /\ pc = "api"
  /\ \E tape \in Tuples(GaussPair,
                        randDraws(heap[a].cls, Len(heap[a].utils))) :
       LET out == mutantChild(heap[a], muteWeight, tape, cluster_count)
       IN  /\ heap' = IF out.exc = "none" THEN Append(heap, out.val) ELSE heap
           /\ ret' = Returned("mutantChild", heap[a].cls,
                              IF out.exc = "none" THEN Len(heap) + 1 ELSE 0,
                              out, <<>>)
  /\ draws' = draws + randDraws(heap[a].cls, Len(heap[a].utils))
  /\ cluster_count' = randCount(heap[a].cls, cluster_count)
  /\ cfg' = [op |-> "mutantChild", a |-> a, w2 |-> muteWeight]
  /\ pc' = "called"
  /\ UNCHANGED <<election, front, run>>

\* ReverseModel()(nvot, ncand, vType)
CallReverseModel(nvot, ncand, vType) ==
  /\ pc = "api"
  /\ \E tape \in Tuples(GaussPair,
                        modelDraws("ReverseModel", nvot, ncand, vType)) :
       LET out == ReverseModel(heap, nvot, ncand, vType, tape, cluster_count)
       IN  /\ heap' = out.heap
           /\ election' = IF out.exc = "none" THEN out.election ELSE election
           /\ draws' = draws + out.used
           /\ cluster_count' = out.cc
           /\ ret' = Returned("ReverseModel", vType, 0,
                              [exc |-> out.exc, val |-> out.election], <<>>)
  /\ cfg' = [op |-> "ReverseModel", nvot |-> nvot, ncand |-> ncand,
             vType |-> vType]
  /\ pc' = "called"
  /\ UNCHANGED <<front, run>>

VoterNext ==
  \/ \E vType \in VoterTypes, ncand \in 0..MaxRunCand : CallRand(vType, ncand)
  \/ \E a \in 1..Len(heap), b \in 1..Len(heap), w2 \in WeightSet :
       CallHybridWith(a, b, w2)
  \/ \E a \in 1..Len(heap), w2 \in WeightSet : CallMutantChild(a, w2)
  \/ \E nvot \in 0..MaxVoters, ncand \in 0..MaxRunCand, vType \in VoterTypes :
       CallReverseModel(nvot, ncand, vType)

SpecVoter == VoterInit /\ [][VoterNext]_vars

\* Nothing a call could have changed has changed.
NoStateChange ==
  /\ heap' = heap
  /\ election' = election
  /\ draws' = draws
  /\ cluster_count' = cluster_count

\* C10: hybridWith on voters of different lengths raises its assertion
\* error and makes no voter; the mirrored model called with an odd voter
\* count raises ValueError before it draws a base voter or builds an
\* electorate; with equal lengths, and with an even count, neither raises
\* that error.
C10_InvalidArgumentsFailFast ==
  [][/\ cfg'.op = "hybridWith" =>
          IF Len(heap[cfg'.a].utils) # Len(heap[cfg'.b].utils)
          THEN ret'.exc = "AssertionError" /\ NoStateChange
          ELSE ret'.exc # "AssertionError"
     /\ cfg'.op = "ReverseModel" =>
          IF cfg'.nvot % 2 # 0
          THEN ret'.exc = "ValueError" /\ NoStateChange
          ELSE ret'.exc # "ValueError"]_vars

\* The mirrored model refused an odd count after values had been drawn and
\* voters of two lengths made, on which hybridWith fails too.
C10_Witness ==
  /\ cfg.op = "ReverseModel"
  /\ ret.exc = "ValueError"
  /\ draws > 0
  /\ \E a \in 1..Len(heap), b \in 1..Len(heap) :
       /\ Len(heap[a].utils) # Len(heap[b].utils)
       /\ hybridWith(heap[a], heap[b], <<3, 4>>).exc = "AssertionError"

\* C11: blending from a PersonalityVoter (hybridWith on equal lengths,
\* mutantChild) succeeds and the voter it makes has the cluster id and the
\* personality of the voter it derives from; PersonalityVoter.rand stamps a
\* cluster id greater than every id stamped before.
C11_BlendKeepsClusterLineage ==
  [][/\ ( /\ cfg'.op \in {"hybridWith", "mutantChild"}
          /\ heap[cfg'.a].cls = "PersonalityVoter"
          /\ cfg'.op = "hybridWith" =>
               Len(heap[cfg'.a].utils) = Len(heap[cfg'.b].utils) )
        => /\ ret'.exc = "none"
           /\ hasattr(ret'.val.attrs, "cluster")
           /\ hasattr(ret'.val.attrs, "personality")
           /\ ret'.val.attrs["cluster"] = heap[cfg'.a].attrs["cluster"]
           /\ ret'.val.attrs["personality"]
                = heap[cfg'.a].attrs["personality"]
     /\ (cfg'.op = "rand" /\ cfg'.vType = "PersonalityVoter")
        => \A v \in 1..Len(heap) :
             hasattr(heap[v].attrs, "cluster")
               => ret'.val.attrs["cluster"] > heap[v].attrs["cluster"]]_vars

----------------------------------------------------------------------------
(* PolyaModel: one call of a configured urn model (SpecPolya).             *)

PolyaInit ==
  /\ \E seedVoters \in 0..MaxUrn, alpha \in 0..MaxAlpha, seedModel \in Models,
        mutantFactor \in WeightSet, nvot \in 0..MaxUrn,
        ncand \in 1..MaxRunCand, vType \in VoterTypes :
       cfg = [op |-> "PolyaModel", seedVoters |-> seedVoters, alpha |-> alpha,
              seedModel |-> seedModel, mutantFactor |-> mutantFactor,
              nvot |-> nvot, ncand |-> ncand, vType |-> vType]
  /\ heap = <<>>
  /\ election = <<>>
  /\ draws = 0
  /\ cluster_count = 0
  /\ pc = "seed"
  /\ front = NoFront
  /\ ret = NoRet
  /\ run = NoRun

\* election = self.seedModel(self.seedVoters, ncand, vType)
PolyaSeed ==
  /\ pc = "seed"
  /\ \E tape \in Tuples(GaussPair,
                        modelDraws(cfg.seedModel, cfg.seedVoters, cfg.ncand,
                                   cfg.vType)) :
       LET out == callModel(cfg.seedModel, heap, cfg.seedVoters, cfg.ncand,
                            cfg.vType, tape, cluster_count)
       IN  /\ heap' = out.heap
           /\ election' = out.election
           /\ draws' = draws + out.used
           /\ cluster_count' = out.cc
           /\ ret' = Returned("seedModel", cfg.vType, 0,
                              [exc |-> out.exc, val |-> out.election], <<>>)
           /\ pc' = IF out.exc = "none" THEN "loop" ELSE "raised"
  /\ UNCHANGED <<cfg, front, run>>

\* One iteration of the while loop, the draw being below len(election):
\* election.append(election[i].mutantChild(self.mutantFactor)).
PolyaClone(i) ==
  LET parent == heap[election[i + 1]]
      d == randDraws(parent.cls, Len(parent.utils))
  IN  /\ pc = "loop"
      /\ Len(election) < cfg.nvot
      /\ i < Len(election)
      /\ \E tape \in Tuples(GaussPair, d) :
           LET out == mutantChild(parent, cfg.mutantFactor, tape,
                                  cluster_count)
           IN  /\ ret' = Returned("mutantChild", parent.cls, 0, out, <<>>)
               /\ IF out.exc = "none"
                  THEN /\ heap' = Append(heap, out.val)
                       /\ election' = Append(election, Len(heap) + 1)
                       /\ pc' = pc
                  ELSE /\ heap' = heap
                       /\ election' = election
                       /\ pc' = "raised"
      /\ draws' = draws + 1 + d
      /\ cluster_count' = randCount(parent.cls, cluster_count)
      /\ UNCHANGED <<cfg, front, run>>

\* One iteration of the while loop, the draw being in the wildcard range:
\* election.append(vType.rand(ncand)).
PolyaWildcard(i) ==
  /\ pc = "loop"
  /\ Len(election) < cfg.nvot
  /\ Len(election) <= i /\ i < Len(election) + cfg.alpha
  /\ \E tape \in Tuples(GaussPair, randDraws(cfg.vType, cfg.ncand)) :
       LET voter == rand(cfg.vType, cfg.ncand, tape, cluster_count)
       IN  /\ heap' = Append(heap, voter)
           /\ election' = Append(election, Len(heap) + 1)
           /\ ret' = Returned("rand", cfg.vType, 0, Ok(voter), <<>>)
  /\ draws' = draws + 1 + randDraws(cfg.vType, cfg.ncand)
  /\ cluster_count' = randCount(cfg.vType, cluster_count)
  /\ UNCHANGED <<pc, cfg, front, run>>

\* random.randrange(len(election) + self.alpha) on an empty range.
PolyaEmptyRange ==
  /\ pc = "loop"
  /\ Len(election) < cfg.nvot
  /\ Len(election) + cfg.alpha = 0
  /\ ret' = Returned("randrange", "random", 0, Raise("ValueError"), <<>>)
  /\ pc' = "raised"
  /\ UNCHANGED <<heap, election, draws, cluster_count, cfg, front, run>>

\* The loop condition fails: return election.
PolyaReturn ==
  /\ pc = "loop"
  /\ Len(election) >= cfg.nvot
  /\ ret' = Returned("PolyaModel", cfg.vType, 0, Ok(election), <<>>)
  /\ pc' = "returned"
  /\ UNCHANGED <<heap, election, draws, cluster_count, cfg, front, run>>

PolyaNext ==
  \/ PolyaSeed
  \/ \E i \in 0..(MaxUrn + MaxAlpha) : PolyaClone(i)
  \/ \E i \in 0..(MaxUrn + MaxAlpha) : PolyaWildcard(i)
  \/ PolyaEmptyRange
  \/ PolyaReturn

SpecPolya == PolyaInit /\ [][PolyaNext]_vars

\* C7: the electorate the urn model returns has exactly voterCount voters,
\* and the electorate never holds more than voterCount voters while it is
\* generated.
C7_UrnSizeIsVoterCount ==
  /\ Len(election) <= cfg.nvot
  /\ pc = "returned" => Len(election) = cfg.nvot

\* C8: every iteration of the urn loop appends exactly one voter and keeps
\* the voters already there, until the electorate has voterCount voters and
\* the call returns; no iteration raises.
C8_UrnLoopCompletes ==
  [][pc = "loop" =>
       IF Len(election) < cfg.nvot
       THEN /\ pc' = "loop"
            /\ Len(election') = Len(election) + 1
            /\ SubSeq(election', 1, Len(election)) = election
            /\ SubSeq(heap', 1, Len(heap)) = heap
       ELSE pc' = "returned" /\ election' = election]_vars

====
